---------------------------- MODULE Spec2Model ----------------------------
(***************************************************************************)
(* Model of codegen-backend-api/app.py: the /api/generate request handler, *)
(* its two provider adapters, the provider selector, the secret redactor   *)
(* and the buffered-JSON / SSE delivery.                                   *)
(*                                                                         *)
(* A Python str is a sequence of one-character strings.  An Optional[str]  *)
(* is a sequence of length at most one: None is << >>, the value s is      *)
(* << s >>.  A JSON value is a record tagged by its field t.               *)
(***************************************************************************)
EXTENDS Integers, Sequences, FiniteSets, TLC

VARIABLES
    environ,    \* os.environ after load_dotenv(): the process configuration
    req,        \* the inbound request (body fields and headers), or NoRequest
    pc,         \* position of the handler coroutine / SSE generator
    provider,   \* generate(): local `provider` (line 148)
    invoked,    \* adapters entered by this request, in order
    calls,      \* outbound HTTP POSTs made by this request, in order
    reply,      \* the backend's answer to the outbound call
    raised,     \* the exception text raised inside the adapter, if any
    outcome,    \* what _do_call returned or re-raised
    response,   \* the HTTP response object returned by generate()
    events,     \* SSE events yielded by sse_stream(), in order
    arg,        \* argument of a direct call of pick_provider / redact
    ret         \* its return value

vars == <<environ, req, pc, provider, invoked, calls, reply, raised, outcome,
          response, events, arg, ret>>

---------------------------------------------------------------------------
(* Bounds of the model.                                                    *)

\* Largest number of whitespace characters put on either side of a provider spelling.
MaxPad == 1

\* Longest message handed to a direct call of redact.
MaxMsgLen == 3

\* Largest number of filler characters following the echoed credential in a backend error body.
MaxTail == 1

(* Program constants.                                                      *)

\* r.text[:200] in both adapters.
BodyLimit == 200

\* redact(str(e))[:200] in _do_call.
MsgLimit == 200

---------------------------------------------------------------------------
(* Optional values.                                                        *)

None == << >>

Some(v) == << v >>

\* Python truthiness of an Optional[str]: None and "" are falsy.
Truthy(o) == o # None /\ o[1] # << >>

\* Python `a or b` on Optional[str] operands.
OrElse(a, b) == IF Truthy(a) THEN a ELSE b

---------------------------------------------------------------------------
(* Python str operations.                                                  *)

UpperCase ==
    <<"A", "B", "C", "D", "E", "F", "G", "H", "I", "J", "K", "L", "M",
      "N", "O", "P", "Q", "R", "S", "T", "U", "V", "W", "X", "Y", "Z">>

LowerCase ==
    <<"a", "b", "c", "d", "e", "f", "g", "h", "i", "j", "k", "l", "m",
      "n", "o", "p", "q", "r", "s", "t", "u", "v", "w", "x", "y", "z">>

Whitespace == {" ", "\t", "\n"}

LowerChar(c) ==
    IF \E i \in 1..Len(UpperCase) : UpperCase[i] = c
    THEN LowerCase[CHOOSE i \in 1..Len(UpperCase) : UpperCase[i] = c]
    ELSE c

UpperChar(c) ==
    IF \E i \in 1..Len(LowerCase) : LowerCase[i] = c
    THEN UpperCase[CHOOSE i \in 1..Len(LowerCase) : LowerCase[i] = c]
    ELSE c

\* str.lower()
Lower(s) == [i \in 1..Len(s) |-> LowerChar(s[i])]

\* str.upper(), used only to spell inputs
Upper(s) == [i \in 1..Len(s) |-> UpperChar(s[i])]

\* str.strip(): drops leading and trailing whitespace
Strip(s) ==
    LET keep == {i \in 1..Len(s) : s[i] \notin Whitespace}
    IN  IF keep = {} THEN << >>
        ELSE SubSeq(s, CHOOSE i \in keep : \A j \in keep : i <= j,
                       CHOOSE i \in keep : \A j \in keep : i >= j)

\* str.rstrip(chars)
RStrip(s, chars) ==
    LET keep == {i \in 1..Len(s) : s[i] \notin chars}
    IN  IF keep = {} THEN << >>
        ELSE SubSeq(s, 1, CHOOSE i \in keep : \A j \in keep : i >= j)

\* s[:n]
Take(s, n) == SubSeq(s, 1, IF Len(s) < n THEN Len(s) ELSE n)

\* whether sub occurs in s at position i
OccursAt(s, sub, i) ==
    /\ i + Len(sub) - 1 <= Len(s)
    /\ \A j \in 1..Len(sub) : s[i + j - 1] = sub[j]

\* `sub in s`
Contains(s, sub) == \E i \in 1..(Len(s) + 1) : OccursAt(s, sub, i)

\* str.replace(old, new): every leftmost non-overlapping occurrence of `old` becomes
\* `new`; an empty `old` matches before every character and at the end.
\* taken[i]: the scan replaces an occurrence starting at i (no earlier replaced
\* occurrence covers i).  Piece(i): what position i contributes to the result.
Replace(s, old, new) ==
    LET n == Len(s)
        L == Len(old)
        taken[i \in 1..n] ==
            /\ OccursAt(s, old, i)
            /\ \A d \in 1..(L - 1) : i - d < 1 \/ ~taken[i - d]
        Piece(i) ==
            IF L = 0 THEN (IF i <= n THEN new \o << s[i] >> ELSE new)
            ELSE IF i > n THEN << >>
            ELSE IF taken[i] THEN new
            ELSE IF \E d \in 1..(L - 1) : i - d >= 1 /\ taken[i - d] THEN << >>
            ELSE << s[i] >>
        Cat[lo \in 1..(n + 1), hi \in 1..(n + 1)] ==
            IF lo = hi THEN Piece(lo)
            ELSE LET mid == (lo + hi) \div 2
                 IN  Cat[lo, mid] \o Cat[mid + 1, hi]
    IN  Cat[1, n + 1]

\* n copies of the character c
Fill(c, n) == [i \in 1..n |-> c]

---------------------------------------------------------------------------
(* String literals of the source.                                          *)

\* "openai"
s_openai ==
    <<"o", "p", "e", "n", "a", "i">>

\* "ollama"
s_ollama ==
    <<"o", "l", "l", "a", "m", "a">>

\* "OpenAI"
s_OpenAI ==
    <<"O", "p", "e", "n", "A", "I">>

\* "text/event-stream"
s_event_stream ==
    <<"t", "e", "x", "t", "/", "e", "v", "e", "n", "t", "-", "s", "t", "r", "e", "a",
    "m">>

\* "application/json"
s_json ==
    <<"a", "p", "p", "l", "i", "c", "a", "t", "i", "o", "n", "/", "j", "s", "o", "n">>

\* "Text/Event-Stream"
s_Event_Stream ==
    <<"T", "e", "x", "t", "/", "E", "v", "e", "n", "t", "-", "S", "t", "r", "e", "a",
    "m">>

\* "Missing OpenAI API key"
s_missing_key ==
    <<"M", "i", "s", "s", "i", "n", "g", " ", "O", "p", "e", "n", "A", "I", " ", "A", "P",
    "I", " ", "k", "e", "y">>

\* "OpenAI error: "
s_openai_error ==
    <<"O", "p", "e", "n", "A", "I", " ", "e", "r", "r", "o", "r", ":", " ">>

\* "Ollama error: "
s_ollama_error ==
    <<"O", "l", "l", "a", "m", "a", " ", "e", "r", "r", "o", "r", ":", " ">>

\* "<html"
s_html_marker ==
    <<"<", "h", "t", "m", "l">>

\* "<!doctype html><html><body><pre>"
s_wrap_open ==
    <<"<", "!", "d", "o", "c", "t", "y", "p", "e", " ", "h", "t", "m", "l", ">", "<", "h",
    "t", "m", "l", ">", "<", "b", "o", "d", "y", ">", "<", "p", "r", "e", ">">>

\* "</pre></body></html>"
s_wrap_close ==
    <<"<", "/", "p", "r", "e", ">", "<", "/", "b", "o", "d", "y", ">", "<", "/", "h", "t",
    "m", "l", ">">>

\* "Preview updated."
s_preview ==
    <<"P", "r", "e", "v", "i", "e", "w", " ", "u", "p", "d", "a", "t", "e", "d", ".">>

\* "Missing prompt"
s_missing_prompt ==
    <<"M", "i", "s", "s", "i", "n", "g", " ", "p", "r", "o", "m", "p", "t">>

\* "list index out of range"
s_index_error ==
    <<"l", "i", "s", "t", " ", "i", "n", "d", "e", "x", " ", "o", "u", "t", " ", "o", "f",
    " ", "r", "a", "n", "g", "e">>

\* "'NoneType' object has no attribute 'get'"
s_none_get ==
    <<"'", "N", "o", "n", "e", "T", "y", "p", "e", "'", " ", "o", "b", "j", "e", "c", "t",
    " ", "h", "a", "s", " ", "n", "o", " ", "a", "t", "t", "r", "i", "b", "u", "t", "e",
    " ", "'", "g", "e", "t", "'">>

\* "'NoneType' object has no attribute 'lower'"
s_none_lower ==
    <<"'", "N", "o", "n", "e", "T", "y", "p", "e", "'", " ", "o", "b", "j", "e", "c", "t",
    " ", "h", "a", "s", " ", "n", "o", " ", "a", "t", "t", "r", "i", "b", "u", "t", "e",
    " ", "'", "l", "o", "w", "e", "r", "'">>

\* "'NoneType' object is not subscriptable"
s_none_subscript ==
    <<"'", "N", "o", "n", "e", "T", "y", "p", "e", "'", " ", "o", "b", "j", "e", "c", "t",
    " ", "i", "s", " ", "n", "o", "t", " ", "s", "u", "b", "s", "c", "r", "i", "p", "t",
    "a", "b", "l", "e">>

\* "Expecting value: line 1 column 1 (char 0)"
s_json_error ==
    <<"E", "x", "p", "e", "c", "t", "i", "n", "g", " ", "v", "a", "l", "u", "e", ":", " ",
    "l", "i", "n", "e", " ", "1", " ", "c", "o", "l", "u", "m", "n", " ", "1", " ", "(",
    "c", "h", "a", "r", " ", "0", ")">>

\* "timed out"
s_timeout ==
    <<"t", "i", "m", "e", "d", " ", "o", "u", "t">>

\* "/api/generate"
s_api_generate ==
    <<"/", "a", "p", "i", "/", "g", "e", "n", "e", "r", "a", "t", "e">>

\* "http://localhost:11434"
s_localhost ==
    <<"h", "t", "t", "p", ":", "/", "/", "l", "o", "c", "a", "l", "h", "o", "s", "t", ":",
    "1", "1", "4", "3", "4">>

\* "https://api.openai.com/v1/chat/completions"
s_chat_url ==
    <<"h", "t", "t", "p", "s", ":", "/", "/", "a", "p", "i", ".", "o", "p", "e", "n", "a",
    "i", ".", "c", "o", "m", "/", "v", "1", "/", "c", "h", "a", "t", "/", "c", "o", "m",
    "p", "l", "e", "t", "i", "o", "n", "s">>

\* "llama3"
s_llama3 ==
    <<"l", "l", "a", "m", "a", "3">>

\* "gpt-4o-mini"
s_gpt ==
    <<"g", "p", "t", "-", "4", "o", "-", "m", "i", "n", "i">>

\* the payload of the status chunk (line 164); the source ends the word Generating with
\* a non-ASCII ellipsis, written here as three dots
s_status_chunk ==
    <<"{", "\"", "t", "y", "p", "e", "\"", ":", "\"", "s", "t", "a", "t", "u", "s", "\"",
    ",", "\"", "p", "a", "y", "l", "o", "a", "d", "\"", ":", "\"", "G", "e", "n", "e", "r",
    "a", "t", "i", "n", "g", ".", ".", ".", "\"", "}">>

\* "<HTML><body>Hi</body></HTML>"
s_page ==
    <<"<", "H", "T", "M", "L", ">", "<", "b", "o", "d", "y", ">", "H", "i", "<", "/", "b",
    "o", "d", "y", ">", "<", "/", "H", "T", "M", "L", ">">>

\* the mask of redact
s_mask == <<"*", "*", "*">>

---------------------------------------------------------------------------
(* Process configuration and the pure functions.                           *)

\* env(name, default): os.getenv
env(name, default) == IF environ[name] = None THEN default ELSE environ[name]

\* redact(msg): line 38.  os.getenv("OPENAI_API_KEY", "") or ""
redact(msg) ==
    LET key == OrElse(env("OPENAI_API_KEY", Some(<< >>)), Some(<< >>))[1]
    IN  Replace(msg, key, s_mask)

\* pick_provider comparing without .strip()
pick_provider_unstripped(req_provider) ==
    LET pv == Lower(OrElse(req_provider, env("PROVIDER", Some(s_ollama)))[1])
    IN  IF pv = s_openai THEN s_openai ELSE s_ollama

\* pick_provider(req_provider): lines 105-106
pick_provider(req_provider) ==
    LET pv == Strip(Lower(OrElse(req_provider, env("PROVIDER", Some(s_ollama)))[1]))
    IN  IF pv = s_openai THEN s_openai ELSE s_ollama

\* the HTML normalisation shared by both adapters (lines 65 and 100)
normalize(text) ==
    IF Contains(Lower(text), s_html_marker) THEN text
    ELSE s_wrap_open \o text \o s_wrap_close

---------------------------------------------------------------------------
(* JSON values, as returned by r.json().                                   *)

JNull == [t |-> "null"]

JStr(s) == [t |-> "str", v |-> s]

JList(l) == [t |-> "list", v |-> l]

\* a JSON object; f maps its field names to JSON values
JObj(f) == [t |-> "obj", v |-> f]

\* the empty dict {}
JEmpty == JObj(<< >>)

\* dict.get(k, default)
Get(o, k, default) == IF k \in DOMAIN o.v THEN o.v[k] ELSE default

\* what an adapter does: return a result dict, or raise
Return(html) == [ok |-> TRUE, html |-> html, content |-> s_preview, messages |-> None]

Raise(msg) == [ok |-> FALSE, msg |-> msg]

---------------------------------------------------------------------------
(* The request.                                                            *)

NoRequest ==
    [prompt |-> << >>, provider |-> None, model |-> None, accept |-> << >>,
     x_openai_key |-> None, x_ollama_base |-> None]

\* a credential configured for the process, and one supplied by a request
ConfiguredKey == <<"s", "k", "-", "1">>

HeaderKey == <<"s", "k", "-", "2">>

Prompts == {<< >>, <<" ">>, <<"h", "i">>}

ProviderFields == {None, Some(<<" ">> \o s_OpenAI), Some(s_ollama)}

ModelFields == {None, Some(<<"m", " ">>)}

AcceptHeaders == {s_json, s_Event_Stream}

KeyHeaders == {None, Some(<< >>), Some(HeaderKey)}

BaseHeaders == {None, Some(<<"h", "/">>)}

Requests ==
    [prompt : Prompts, provider : ProviderFields, model : ModelFields,
     accept : AcceptHeaders, x_openai_key : KeyHeaders, x_ollama_base : BaseHeaders]

Environs ==
    [PROVIDER : {None, Some(s_openai), Some(s_ollama)},
     OPENAI_API_KEY : {None, Some(<< >>), Some(ConfiguredKey)},
     OLLAMA_MODEL : {None}, OLLAMA_BASE_URL : {None}, OPENAI_MODEL : {None}]

\* the prompt tested without .strip()
Prompt_unstripped == req.prompt

\* generate(): prompt = (body.prompt or "").strip()
Prompt == Strip(req.prompt)

\* generate(): model = (body.model or "").strip() or None
Model == OrElse(Some(Strip(OrElse(req.model, Some(<< >>))[1])), None)

\* want_sse(request)
want_sse == Contains(Lower(req.accept), s_event_stream)

\* sse_event(event, data)
sse_event(event, data) == [event |-> event, data |-> data]

JSONResponse(body, status_code) ==
    [kind |-> "json", status |-> status_code, body |-> body]

StreamingResponse == [kind |-> "stream", status |-> 200, media_type |-> s_event_stream]

NoResponse == [kind |-> "none", status |-> 0]

---------------------------------------------------------------------------
(* The adapters.                                                           *)

\* ollama_adapter up to its POST (lines 49-60): the call it makes
ollama_request(model, base_url) ==
    [backend |-> s_ollama,
     url |-> RStrip(OrElse(base_url, env("OLLAMA_BASE_URL", Some(s_localhost)))[1], {"/"})
             \o s_api_generate,
     model |-> OrElse(model, env("OLLAMA_MODEL", Some(s_llama3)))[1],
     authorization |-> None, stream |-> FALSE, timeout |-> 60]

\* openai_adapter: key = api_key or env("OPENAI_API_KEY", None)
openai_key(api_key) == OrElse(api_key, env("OPENAI_API_KEY", None))

\* `if key is None` in place of `if not key`
missing_key_is_none(key) == key = None

\* openai_adapter: `if not key` (line 75)
missing_key(key) == ~Truthy(key)

\* openai_adapter up to its POST (lines 78-95): the call it makes
openai_request(model, api_key) ==
    [backend |-> s_openai,
     url |-> s_chat_url,
     model |-> OrElse(model, env("OPENAI_MODEL", Some(s_gpt)))[1],
     authorization |-> openai_key(api_key), stream |-> FALSE, timeout |-> 60]

\* ollama_adapter after its POST (lines 60-66); r.exc is what client.post raised
ollama_response(r) ==
    IF r.exc # None THEN Raise(r.exc[1])
    ELSE IF r.status # 200 THEN Raise(s_ollama_error \o Take(r.text, BodyLimit))
    ELSE IF r.json = None THEN Raise(s_json_error)
    ELSE LET data == r.json[1]
             text == Get(data, "response", JStr(<< >>))
         IN  IF text.t = "null" THEN Raise(s_none_lower)
             ELSE Return(normalize(text.v))

\* openai_adapter after its POST (lines 95-101)
openai_response(r) ==
    IF r.exc # None THEN Raise(r.exc[1])
    ELSE IF r.status # 200 THEN Raise(s_openai_error \o Take(r.text, BodyLimit))
    ELSE IF r.json = None THEN Raise(s_json_error)
    ELSE LET data == r.json[1]
             choices == Get(data, "choices", JList(<< JEmpty >>))
         IN  IF choices.t = "null" THEN Raise(s_none_subscript)
             ELSE IF choices.v = << >> THEN Raise(s_index_error)
             ELSE LET message == Get(choices.v[1], "message", JEmpty)
                  IN  IF message.t = "null" THEN Raise(s_none_get)
                      ELSE LET got == Get(message, "content", JStr(<< >>))
                               content == IF got.t = "null" THEN << >> ELSE got.v
                           IN  Return(normalize(content))

\* truncating before redacting
do_call_except_cut_first(e) == redact(Take(e, MsgLimit))

\* _do_call's except clause (lines 156-159): the message of the RuntimeError it raises
do_call_except(e) == Take(redact(e), MsgLimit)

---------------------------------------------------------------------------
(* What a backend can answer.                                              *)

HttpReply(status, text, json) == [exc |-> None, status |-> status, text |-> text, json |-> json]

\* client.post raising (connection refused, the 60 s timeout)
TransportFailure(msg) == [exc |-> Some(msg), status |-> 0, text |-> << >>, json |-> None]

\* credentials an error body may repeat: none, the configured one, the one sent
Echoes ==
    LET cfg == environ.OPENAI_API_KEY
        sent == IF calls # << >> THEN calls[1].authorization ELSE None
    IN  << << >> >>
        \o (IF Truthy(cfg) THEN << cfg[1] >> ELSE << >>)
        \o (IF Truthy(sent) /\ sent # cfg THEN << sent[1] >> ELSE << >>)

\* filler lengths before the echo: none; so that prefix + body just passes MsgLimit;
\* so that the echo straddles BodyLimit
PreLens == <<0, MsgLimit - Len(s_openai_error) - 2, BodyLimit - 2>>

ErrorTexts ==
    LET E == Echoes
        T == MaxTail + 1
    IN  [i \in 1..(Len(PreLens) * Len(E) * T) |->
            LET k == i - 1
                n == PreLens[(k \div (Len(E) * T)) + 1]
                e == E[((k \div T) % Len(E)) + 1]
                m == k % T
            IN  Fill("x", n) \o e \o Fill("y", m)]

ErrorReplies == [i \in 1..Len(ErrorTexts) |-> HttpReply(500, ErrorTexts[i], None)]

SuccessRepliesOllama ==
    << HttpReply(200, << >>, Some(JObj([response |-> JStr(s_page)]))),
       HttpReply(200, << >>, Some(JObj([response |-> JStr(<<"h", "i">>)]))),
       HttpReply(200, << >>, Some(JEmpty)),
       HttpReply(200, << >>, Some(JObj([response |-> JNull]))) >>

Choice(content) == JObj([message |-> JObj([content |-> content])])

SuccessRepliesOpenAI ==
    << HttpReply(200, << >>, Some(JObj([choices |-> JList(<< Choice(JStr(s_page)) >>)]))),
       HttpReply(200, << >>, Some(JObj([choices |-> JList(<< Choice(JStr(<<"h", "i">>)) >>)]))),
       HttpReply(200, << >>, Some(JEmpty)),
       HttpReply(200, << >>, Some(JObj([choices |-> JList(<< >>)]))),
       HttpReply(200, << >>, Some(JObj([choices |-> JList(<< JEmpty >>)]))),
       HttpReply(200, << >>, Some(JObj([choices |-> JList(<< JObj([message |-> JEmpty]) >>)]))),
       HttpReply(200, << >>, Some(JObj([choices |-> JList(<< Choice(JNull) >>)]))) >>

Replies ==
    << TransportFailure(s_timeout), HttpReply(200, << >>, None) >>
    \o ErrorReplies
    \o (IF provider = s_openai THEN SuccessRepliesOpenAI ELSE SuccessRepliesOllama)

NoReply == [exc |-> None, status |-> 0, text |-> << >>, json |-> None]

---------------------------------------------------------------------------
(* The request handler generate(), one action per step between two         *)
(* suspension points.                                                      *)

Init ==
    /\ environ \in Environs
    /\ req = NoRequest
    /\ pc = "idle"
    /\ provider = << >>
    /\ invoked = << >>
    /\ calls = << >>
    /\ reply = NoReply
    /\ raised = None
    /\ outcome = None
    /\ response = NoResponse
    /\ events = << >>
    /\ arg = None
    /\ ret = None

\* a request arrives at POST /api/generate
Receive ==
    /\ pc = "idle"
    /\ req' \in Requests
    /\ pc' = "start"
    /\ UNCHANGED <<environ, provider, invoked, calls, reply, raised, outcome,
                   response, events, arg, ret>>

\* the streaming branch entering _do_call without the first yield
Handle_skip_chunk ==
    /\ pc = "start"
    /\ IF Prompt = << >>
       THEN /\ response' = JSONResponse([error |-> s_missing_prompt], 400)
            /\ pc' = "done"
            /\ UNCHANGED provider
       ELSE /\ provider' = pick_provider(req.provider)
            /\ IF want_sse
               THEN response' = StreamingResponse /\ pc' = "do_call"
               ELSE UNCHANGED response /\ pc' = "do_call"
    /\ UNCHANGED <<environ, req, invoked, calls, reply, raised, outcome, events, arg, ret>>

\* lines 144-149, 161 and 180: validation, provider selection, choice of delivery
Handle ==
    /\ pc = "start"
    /\ IF Prompt = << >>
       THEN /\ response' = JSONResponse([error |-> s_missing_prompt], 400)
            /\ pc' = "done"
            /\ UNCHANGED provider
       ELSE /\ provider' = pick_provider(req.provider)
            /\ IF want_sse
               THEN response' = StreamingResponse /\ pc' = "sse_stream"
               ELSE UNCHANGED response /\ pc' = "do_call"
    /\ UNCHANGED <<environ, req, invoked, calls, reply, raised, outcome, events, arg, ret>>

\* line 164: the generator's first yield
SseChunk ==
    /\ pc = "sse_stream"
    /\ events' = Append(events, sse_event("chunk", s_status_chunk))
    /\ pc' = "do_call"
    /\ UNCHANGED <<environ, req, provider, invoked, calls, reply, raised, outcome,
                   response, arg, ret>>

\* lines 152-155 and the adapter up to `await client.post`: the hosted adapter
\* raises before any call when it has no key, and _do_call's except clause converts it
AdapterCall ==
    /\ pc = "do_call"
    /\ invoked' = Append(invoked, provider)
    /\ IF provider = s_openai /\ missing_key(openai_key(req.x_openai_key))
       THEN /\ raised' = Some(s_missing_key)
            /\ outcome' = Some(Raise(do_call_except(s_missing_key)))
            /\ pc' = "returned"
            /\ UNCHANGED calls
       ELSE /\ calls' = Append(calls, IF provider = s_openai
                                      THEN openai_request(Model, req.x_openai_key)
                                      ELSE ollama_request(Model, req.x_ollama_base))
            /\ pc' = "await"
            /\ UNCHANGED <<raised, outcome>>
    /\ UNCHANGED <<environ, req, provider, reply, response, events, arg, ret>>

\* a failed call sending the request back to the adapter
AdapterReturn_retry ==
    /\ pc = "await"
    /\ \E i \in 1..Len(Replies) :
        LET r == Replies[i]
            res == IF provider = s_openai THEN openai_response(r) ELSE ollama_response(r)
        IN  /\ reply' = r
            /\ raised' = IF res.ok THEN None ELSE Some(res.msg)
            /\ outcome' = Some(IF res.ok THEN res ELSE Raise(do_call_except(res.msg)))
            /\ pc' = IF res.ok \/ Len(calls) > 1 THEN "returned" ELSE "do_call"
    /\ UNCHANGED <<environ, req, provider, invoked, calls, response, events, arg, ret>>

\* the POST completes (or fails, or times out); the rest of the adapter and
\* _do_call's except clause run
AdapterReturn ==
    /\ pc = "await"
    /\ \E i \in 1..Len(Replies) :
        LET r == Replies[i]
            res == IF provider = s_openai THEN openai_response(r) ELSE ollama_response(r)
        IN  /\ reply' = r
            /\ raised' = IF res.ok THEN None ELSE Some(res.msg)
            /\ outcome' = Some(IF res.ok THEN res ELSE Raise(do_call_except(res.msg)))
    /\ pc' = "returned"
    /\ UNCHANGED <<environ, req, provider, invoked, calls, response, events, arg, ret>>

\* the generator without its except clause: a failure ends the stream silently
SseTerminal_no_except ==
    /\ pc = "returned"
    /\ want_sse
    /\ LET result == outcome[1]
       IN  events' = IF result.ok
                     THEN Append(events, sse_event("done", [done |-> TRUE, html |-> result.html,
                                                            content |-> result.content]))
                     ELSE events
    /\ pc' = "done"
    /\ UNCHANGED <<environ, req, provider, invoked, calls, reply, raised, outcome,
                   response, arg, ret>>

\* lines 166-178: the generator's terminal yield
SseTerminal ==
    /\ pc = "returned"
    /\ want_sse
    /\ LET result == outcome[1]
       IN  events' = Append(events,
               IF result.ok
               THEN sse_event("done", [done |-> TRUE, html |-> result.html,
                                       content |-> result.content])
               ELSE sse_event("error", [message |-> result.msg]))
    /\ pc' = "done"
    /\ UNCHANGED <<environ, req, provider, invoked, calls, reply, raised, outcome,
                   response, arg, ret>>

\* lines 182-186: the buffered response
JsonReturn ==
    /\ pc = "returned"
    /\ ~want_sse
    /\ LET result == outcome[1]
       IN  response' = IF result.ok
                       THEN JSONResponse([html |-> result.html, content |-> result.content,
                                          messages |-> result.messages], 200)
                       ELSE JSONResponse([error |-> result.msg], 500)
    /\ pc' = "done"
    /\ UNCHANGED <<environ, req, provider, invoked, calls, reply, raised, outcome,
                   events, arg, ret>>

Next ==
    \/ Receive
    \/ Handle
    \/ SseChunk
    \/ AdapterCall
    \/ AdapterReturn
    \/ SseTerminal
    \/ JsonReturn

Spec == Init /\ [][Next]_vars

---------------------------------------------------------------------------
(* pick_provider called on its own, over spellings of the provider name.   *)

Idle ==
    /\ req = NoRequest
    /\ provider = << >>
    /\ invoked = << >>
    /\ calls = << >>
    /\ reply = NoReply
    /\ raised = None
    /\ outcome = None
    /\ response = NoResponse
    /\ events = << >>

ProviderWords ==
    {s_openai, s_OpenAI, Upper(s_openai), s_ollama, <<"o", "p", "e", "n">>,
     <<"o", "p", "e", "n", " ", "a", "i">>}

\* None, "", and every word with up to MaxPad whitespace characters on each side
ProviderArgs ==
    {None, Some(<< >>), Some(<<"\t">>)}
    \cup {Some(Fill(" ", l) \o w \o Fill(" ", r)) :
            l \in 0..MaxPad, r \in 0..MaxPad, w \in ProviderWords}

InitPick ==
    /\ environ \in [PROVIDER : ProviderArgs, OPENAI_API_KEY : {None},
                    OLLAMA_MODEL : {None}, OLLAMA_BASE_URL : {None}, OPENAI_MODEL : {None}]
    /\ arg \in ProviderArgs
    /\ ret = None
    /\ pc = "call_pick"
    /\ Idle

CallPick ==
    /\ pc = "call_pick"
    /\ ret' = Some(pick_provider(arg))
    /\ pc' = "returned_pick"
    /\ UNCHANGED <<environ, req, provider, invoked, calls, reply, raised, outcome,
                   response, events, arg>>

SpecPick == InitPick /\ [][CallPick]_vars

---------------------------------------------------------------------------
(* redact called on its own, over short messages.                          *)

RedactAlphabet == {"s", "k", "*"}

RedactMessages == UNION {[1..n -> RedactAlphabet] : n \in 0..MaxMsgLen}

RedactKeys == {None, Some(<< >>), Some(<<"k">>), Some(<<"s", "k">>)}

InitRedact ==
    /\ environ \in [PROVIDER : {None}, OPENAI_API_KEY : RedactKeys,
                    OLLAMA_MODEL : {None}, OLLAMA_BASE_URL : {None}, OPENAI_MODEL : {None}]
    /\ arg \in {Some(m) : m \in RedactMessages}
    /\ ret = None
    /\ pc = "call_redact"
    /\ Idle

CallRedact ==
    /\ pc = "call_redact"
    /\ ret' = Some(redact(arg[1]))
    /\ pc' = "returned_redact"
    /\ UNCHANGED <<environ, req, provider, invoked, calls, reply, raised, outcome,
                   response, events, arg>>

SpecRedact == InitRedact /\ [][CallRedact]_vars

---------------------------------------------------------------------------
(* Properties.                                                             *)

\* a prompt that is empty or whitespace only
EmptyPrompt == \A i \in 1..Len(req.prompt) : req.prompt[i] \in Whitespace

\* s is "openai" in any letter case between any whitespace
SpellsOpenAI(s) ==
    \E i \in 1..Len(s) :
        /\ i + Len(s_openai) - 1 <= Len(s)
        /\ \A k \in 1..Len(s) :
            IF k < i \/ k >= i + Len(s_openai)
            THEN s[k] \in Whitespace
            ELSE s[k] \in {s_openai[k - i + 1], UpperChar(s_openai[k - i + 1])}

\* the request is over and the client was given a failure
Failed ==
    /\ pc = "done"
    /\ IF response.kind = "stream"
       THEN Len(events) > 0 /\ events[Len(events)].event = "error"
       ELSE response.status # 200

\* the error message the client was given
ClientMessage ==
    IF response.kind = "stream" THEN events[Len(events)].data.message
    ELSE response.body.error

\* the stream is one chunk event followed by one terminal event
ChunkThenTerminal ==
    /\ Len(events) = 2
    /\ events[1].event = "chunk"
    /\ events[2].event \in {"done", "error"}

\* the events yielded so far begin a chunk-terminal stream
StreamPrefix ==
    /\ Len(events) <= 2
    /\ Len(events) >= 1 => events[1].event = "chunk"
    /\ Len(events) = 2 => events[2].event \in {"done", "error"}

\* C1 as stated: every finished request whose Accept header selects streaming,
\* an empty-prompt one included, has streamed exactly one chunk event and then
\* exactly one done or error event.
C1_StreamForAnyRequest ==
    /\ Len(events) <= 2
    /\ (pc = "done" /\ want_sse) => ChunkThenTerminal

\* C1 amended: a finished streaming request with a prompt that is non-empty after
\* trimming has streamed exactly one chunk event and then exactly one done or error
\* event, and at no time more; a streaming request with an empty prompt is answered
\* with the buffered 400 response and streams no event.  Until a request is done
\* its handler always has a next step.
C1_StreamForNonEmptyPrompt ==
    /\ StreamPrefix
    /\ pc # "done" => ENABLED Next
    /\ (pc = "done" /\ want_sse /\ ~EmptyPrompt)
         => (ChunkThenTerminal /\ response.kind = "stream")
    /\ (pc = "done" /\ want_sse /\ EmptyPrompt)
         => (events = << >> /\ response.kind = "json" /\ response.status = 400)
    /\ ~want_sse => events = << >>

C1_Witness ==
    /\ pc = "done" /\ want_sse /\ ~EmptyPrompt
    /\ Len(events) = 2 /\ events[2].event = "error"

\* C2 as stated: pick_provider returns "openai" exactly when the request-supplied
\* provider spells "openai" (any case, any surrounding whitespace), and "ollama"
\* otherwise, whatever the configured default provider is.
C2_RequestProviderAlone ==
    pc = "returned_pick" =>
        ret[1] = (IF arg # None /\ SpellsOpenAI(arg[1]) THEN s_openai ELSE s_ollama)

\* the name pick_provider decides on: the request's, or when that is None or "",
\* the PROVIDER setting, or when that is unset, "ollama"
EffectiveProvider ==
    IF arg # None /\ arg[1] # << >> THEN arg[1]
    ELSE IF environ.PROVIDER # None THEN environ.PROVIDER[1]
    ELSE s_ollama

\* C2 amended: pick_provider is total and returns "openai" exactly when the
\* request-supplied provider - or, when that is unset or empty, the configured
\* default provider - spells "openai" (any case, any surrounding whitespace); in
\* every other case it returns "ollama".
C2_EffectiveProvider ==
    pc = "returned_pick" =>
        /\ ret # None
        /\ ret[1] = (IF SpellsOpenAI(EffectiveProvider) THEN s_openai ELSE s_ollama)

C2_Witness ==
    /\ pc = "returned_pick"
    /\ arg = None
    /\ environ.PROVIDER = Some(<<" ">> \o s_OpenAI)
    /\ ret = Some(s_openai)

\* C3: the error message of a failed request, buffered or streamed, contains
\* neither the configured credential nor the credential of the X-OpenAI-Key header.
C3_NoCredentialInError ==
    Failed =>
        /\ Truthy(environ.OPENAI_API_KEY)
             => ~Contains(ClientMessage, environ.OPENAI_API_KEY[1])
        /\ Truthy(req.x_openai_key)
             => ~Contains(ClientMessage, req.x_openai_key[1])

\* C4: with no credential configured (unset or ""), redact returns its argument.
C4_RedactNoKeyIsIdentity ==
    (pc = "returned_redact" /\ ~Truthy(environ.OPENAI_API_KEY)) => ret[1] = arg[1]

\* the body has nothing at choices[0].message.content
NoContent(data) ==
    /\ data.t = "obj"
    /\ \/ "choices" \notin DOMAIN data.v
       \/ LET c == data.v.choices
          IN  /\ c.t = "list"
              /\ \/ Len(c.v) = 0
                 \/ LET f == c.v[1]
                    IN  /\ f.t = "obj"
                        /\ \/ "message" \notin DOMAIN f.v
                           \/ LET m == f.v.message
                              IN  /\ m.t = "obj"
                                  /\ \/ "content" \notin DOMAIN m.v
                                     \/ m.v.content.t = "null"

\* C5: when the hosted backend answers 200 with a JSON body, the hosted adapter
\* returns a result; when a field on the path to the first message content is
\* missing, html is the wrapper document around the empty string.
C5_HostedSuccessNeverFails ==
    (/\ pc \in {"returned", "done"}
     /\ provider = s_openai
     /\ calls # << >>
     /\ reply.exc = None /\ reply.status = 200 /\ reply.json # None)
        => /\ raised = None
           /\ outcome[1].ok
           /\ NoContent(reply.json[1]) => outcome[1].html = s_wrap_open \o s_wrap_close

\* C6: a request whose prompt is empty after trimming is answered 400
\* {error: "Missing prompt"}; no adapter is entered and no outbound call is made.
C6_EmptyPromptRejected ==
    (pc # "idle" /\ EmptyPrompt) =>
        /\ invoked = << >>
        /\ calls = << >>
        /\ events = << >>
        /\ pc \in {"start", "done"}
        /\ pc = "done" =>
            /\ response.kind = "json"
            /\ response.status = 400
            /\ DOMAIN response.body = {"error"}
            /\ response.body.error = s_missing_prompt

C6_Witness ==
    /\ pc = "done"
    /\ req.prompt = <<" ">>
    /\ req.provider # None /\ req.x_openai_key = Some(HeaderKey) /\ want_sse
    /\ response.status = 400

\* neither the configuration nor the X-OpenAI-Key header gives a credential
NoCredential == ~Truthy(environ.OPENAI_API_KEY) /\ ~Truthy(req.x_openai_key)

\* C7: with the hosted provider selected and no credential available, the adapter
\* raises the missing-key error without an outbound call, and the request ends with
\* status 500 and an error field (buffered) or an error event (streaming).
C7_MissingCredential ==
    (provider = s_openai /\ NoCredential) =>
        /\ calls = << >>
        /\ pc # "await"
        /\ pc \in {"returned", "done"} =>
            /\ raised = Some(s_missing_key)
            /\ ~outcome[1].ok
        /\ pc = "done" =>
            IF want_sse
            THEN ChunkThenTerminal /\ events[2].event = "error"
            ELSE /\ response.kind = "json" /\ response.status = 500
                 /\ DOMAIN response.body = {"error"}

C7_Witness ==
    /\ pc = "done" /\ provider = s_openai /\ NoCredential
    /\ req.x_openai_key = Some(<< >>) /\ environ.OPENAI_API_KEY = Some(<< >>)
    /\ ~want_sse /\ response.status = 500

\* C8: every exception raised in the adapter call ends the request with exactly one
\* failure representation - status 500 {error} when buffered, one error event when
\* streaming - whose message is redact(text)[:200], so at most 200 characters.
C8_FailureSurfaced ==
    raised # None =>
        /\ pc \in {"returned", "done"}
        /\ ~outcome[1].ok
        /\ pc = "done" =>
            /\ Failed
            /\ Len(ClientMessage) <= MsgLimit
            /\ ClientMessage = Take(redact(raised[1]), MsgLimit)
            /\ IF want_sse
               THEN ChunkThenTerminal /\ response.kind = "stream"
               ELSE /\ response.kind = "json" /\ response.status = 500
                    /\ DOMAIN response.body = {"error"}
                    /\ events = << >>

C8_Witness ==
    /\ pc = "done" /\ raised # None
    /\ Len(raised[1]) > MsgLimit
    /\ Truthy(environ.OPENAI_API_KEY)
    /\ Contains(raised[1], environ.OPENAI_API_KEY[1])
    /\ Len(ClientMessage) = MsgLimit

\* C9: a request enters at most one adapter and makes at most one outbound call,
\* to the backend of the provider the selector chose; a failed call is not repeated.
C9_AtMostOneCall ==
    /\ Len(invoked) <= 1
    /\ Len(calls) <= 1
    /\ Len(calls) <= Len(invoked)
    /\ invoked # << >> => invoked[1] = pick_provider(req.provider)
    /\ calls # << >> =>
        /\ calls[1].backend = pick_provider(req.provider)
        /\ (calls[1].url = s_chat_url) <=> (pick_provider(req.provider) = s_openai)
    /\ pc = "done" => ~ENABLED Next

C9_Witness ==
    /\ pc = "done" /\ Len(calls) = 1 /\ raised # None
    /\ calls[1].backend = s_ollama /\ environ.PROVIDER = Some(s_openai)

\* where a streaming request stands with respect to its one chunk event
C10_Order ==
    (want_sse /\ ~EmptyPrompt) =>
        /\ invoked # << >> =>
            /\ Len(events) >= 1
            /\ events[1].event = "chunk"
            /\ events[1].data = s_status_chunk
        /\ Len(events) = 2 => (pc = "done" /\ outcome # None)
        /\ pc \in {"do_call", "await", "returned"} => Len(events) = 1

\* once the adapter has been entered no chunk event is yielded
C10_NoLateChunk ==
    invoked # << >> =>
        \A i \in (Len(events) + 1)..Len(events') : events'[i].event # "chunk"

\* C10: in streaming mode with a non-empty prompt the chunk event, with its fixed
\* payload, is yielded before the adapter is entered; the terminal event is yielded
\* only after the adapter call has returned or failed; no chunk event is yielded
\* once the adapter has been entered.
C10_ChunkBeforeAdapter == [](C10_Order) /\ [][C10_NoLateChunk]_vars

C10_Witness ==
    /\ pc = "await" /\ want_sse
    /\ Len(events) = 1 /\ events[1].event = "chunk"
    /\ calls # << >>

====
